---- MODULE Spec2Model ----
(***************************************************************************)
(* Model of the three Lambda handlers of lab6-stepfunctions:               *)
(*   process_data/process_data.py            (Data Processor)              *)
(*   send_notification/send_notification.py  (Notifier)                    *)
(*   trigger_workflow/trigger_workflow.py    (Workflow Trigger)            *)
(*                                                                         *)
(* Python dicts are TLA+ functions whose DOMAIN is the set of keys that    *)
(* are present.  JSON scalars are tagged records, so that an empty string, *)
(* null and a missing key stay three different things.  Fractions are      *)
(* integers in a fixed unit: a value of random.random() is u/1000,         *)
(* durations are milliseconds, processingScore is held in units of 1e-5    *)
(* before rounding and 1e-3 (thousandths) after round(.,3).                *)
(***************************************************************************)
EXTENDS Integers, Sequences, FiniteSets, TLC

VARIABLES pd, sn, tw, now, executions

vars == <<pd, sn, tw, now, executions>>

(***************************************************************************)
(* Bounds of the model.                                                    *)
(***************************************************************************)
\* random.random() is sampled on a grid of RandSteps + 1 points of [0, 1).
RandSteps == 4
\* uuid.uuid4() is sampled on MaxUuid + 1 values of its leading 32 bits.
MaxUuid == 1
\* The clock int(time.time()) runs from 0 to MaxTime.
MaxTime == 1
\* The orchestrator's history holds at most MaxExecutions start requests.
MaxExecutions == 2

(***************************************************************************)
(* JSON values and Python dict access.                                     *)
(***************************************************************************)
Str(s) == [t |-> "str", s |-> s]
Num(n) == [t |-> "num", n |-> n]
Null == [t |-> "null"]
List(items) == [t |-> "list", items |-> items]

\* A dict held as a value, where a value of another type may stand as well:
\* its items d and the order in which its keys were inserted.
Dict(keys, d) == [t |-> "dict", d |-> d, keys |-> keys]

\* The order of the keys of a dict that comes from a caller.
KeyOrder == <<"body", "userId", "dataType", "priority", "options", "mode">>

\* A dict that comes from a caller.
Obj(d) == Dict(SelectSeq(KeyOrder, LAMBDA k : k \in DOMAIN d), d)

\* Python truthiness, as used by `if not x`.
Truthy(v) ==
    CASE v.t = "str" -> v.s # ""
      [] v.t = "num" -> v.n # 0
      [] v.t = "null" -> FALSE
      [] v.t = "list" -> v.items # <<>>
      [] v.t = "dict" -> DOMAIN v.d # {}

\* type(v).__name__
type_name(v) ==
    CASE v.t = "str" -> "str"
      [] v.t = "num" -> "int"
      [] v.t = "null" -> "NoneType"
      [] v.t = "list" -> "list"
      [] v.t = "dict" -> "dict"

\* dict.get(key, default)
Get(d, key, default) == IF key \in DOMAIN d THEN d[key] ELSE default

\* All dicts over a subset of the keys K, each present key k valued in V[k].
Dicts(K, V) ==
    UNION { { d \in [D -> UNION {V[k] : k \in D}] : \A k \in D : d[k] \in V[k] }
            : D \in SUBSET K }

\* The outcome of a Python call: a returned value or a raised exception.
Return(value) == [kind |-> "return", value |-> value]
Raise(type, message) == [kind |-> "raise", type |-> type, message |-> message]

(***************************************************************************)
(* The random module.                                                      *)
(***************************************************************************)
\* The sampled values u of random.random() = u / 1000, 0 <= u < 1000.
RandomSamples == { (i * 999) \div RandSteps : i \in 0..RandSteps }

\* random.uniform(a, b) = a + (b - a) * random.random()
uniform(a, b, u) == a + ((b - a) * u) \div 1000

\* random.randint(a, b): a uniform integer of [a, b], both ends included.
randint(a, b, u) == a + ((b - a + 1) * u) \div 1000

\* random.choice(seq)
choice(seq, u) == seq[1 + (Len(seq) * u) \div 1000]

\* round(x, ndigits) with x an integer count of units and `per` units making
\* one unit of the result: round half to even.
round(x, per) ==
    LET q == x \div per
        r == x % per
    IN  IF 2 * r > per THEN q + 1
        ELSE IF 2 * r < per THEN q
        ELSE IF q % 2 = 0 THEN q ELSE q + 1

(***************************************************************************)
(* The execution platform: environment variables and the context object.  *)
(***************************************************************************)
\* os.environ.get('USERNAME', 'unknown')
Usernames == {"unknown", "user1"}

context == [function_name |-> "fn", aws_request_id |-> "req-1"]

metadata(username) ==
    [username |-> Str(username),
     functionName |-> Str(context.function_name),
     requestId |-> Str(context.aws_request_id)]

(***************************************************************************)
(* process_data.lambda_handler                                             *)
(***************************************************************************)
processing_times ==
    [sales_data |-> <<1000, 2000>>, customer_data |-> <<500, 1500>>,
     inventory_data |-> <<2000, 3000>>, analytics_data |-> <<1500, 2500>>,
     general |-> <<1000, 2000>>]

\* success rates, in thousandths
success_rates ==
    [sales_data |-> 900, customer_data |-> 850, inventory_data |-> 800,
     analytics_data |-> 750, general |-> 800]

error_types == <<"data_corruption", "timeout", "validation_error", "resource_unavailable">>

\* processing_times.get(data_type, (1, 2))
processing_time_range(data_type) ==
    IF data_type.t = "str" /\ data_type.s \in DOMAIN processing_times
    THEN processing_times[data_type.s] ELSE <<1000, 2000>>

\* success_rates.get(data_type, 0.8)
success_rate(data_type) ==
    IF data_type.t = "str" /\ data_type.s \in DOMAIN success_rates
    THEN success_rates[data_type.s] ELSE 800

\* The random draws of one invocation, each a sample of random.random().
ProcessDraws == [duration : RandomSamples, success : RandomSamples,
                 records : RandomSamples, score : RandomSamples,
                 error : RandomSamples]

\* The body of the try block (lines 25-109).
process_data_try(event, username, draw) ==
    LET user_id == Get(event, "userId", Str("unknown"))
        data_type == Get(event, "dataType", Str("general"))
        range == processing_time_range(data_type)
        processing_duration == uniform(range[1], range[2], draw.duration)
        success == draw.success < success_rate(data_type)
        records_processed == randint(100, 1000, draw.records)
        processing_score == uniform(70000, 99000, draw.score)
        error_type == choice(error_types, draw.error)
    IN  IF ~Truthy(user_id) \/ ~Truthy(data_type)
        THEN Raise("ValueError", "Missing required fields: userId or dataType")
        ELSE IF success
        THEN Return([userId |-> user_id,
                     dataType |-> data_type,
                     status |-> Str("SUCCESS"),
                     processedAt |-> Num(now),
                     recordsProcessed |-> Num(records_processed),
                     processingDuration |-> Num(round(processing_duration, 10)),
                     processingScore |-> Num(round(processing_score, 100)),
                     nextStep |-> Str("send_notification"),
                     metadata |-> metadata(username)])
        ELSE Raise("Exception", "Data processing failed: " \o error_type)

\* A variant of the except clause that returns error_result instead of raising.
process_data_except_swallow(event, username, outcome) ==
    IF outcome.kind = "raise"
    THEN Return([userId |-> Get(event, "userId", Str("unknown")),
                 dataType |-> Get(event, "dataType", Str("unknown")),
                 status |-> Str("FAILED"),
                 error |-> Str(outcome.message),
                 errorType |-> Str("exception"),
                 processedAt |-> Num(now),
                 metadata |-> metadata(username)])
    ELSE outcome

\* The except clause (lines 111-129): error_result is built and dropped, and
\* the exception is raised again as Exception(str(e)).
process_data_except(event, username, outcome) ==
    LET error_result ==
            [userId |-> Get(event, "userId", Str("unknown")),
             dataType |-> Get(event, "dataType", Str("unknown")),
             status |-> Str("FAILED"),
             error |-> Str(outcome.message),
             errorType |-> Str("exception"),
             processedAt |-> Num(now),
             metadata |-> metadata(username)]
    IN  IF outcome.kind = "raise" THEN Raise("Exception", outcome.message)
        ELSE outcome

process_data_handler(event, username, draw) ==
    process_data_except(event, username, process_data_try(event, username, draw))

\* The Task Descriptors the platform may hand to the Data Processor.
ProcessUserIds == {Str(""), Str("u1"), Null}
ProcessDataTypes ==
    {Str(""), Null, Str("bogus")} \cup {Str(k) : k \in DOMAIN processing_times}
ProcessEvents ==
    Dicts({"userId", "dataType"},
          [userId |-> ProcessUserIds, dataType |-> ProcessDataTypes])

Idle == [phase |-> "idle"]

\* The platform invokes the Data Processor with an event.
ProcessDataInvoke ==
    /\ pd.phase = "idle"
    /\ \E event \in ProcessEvents, username \in Usernames :
          pd' = [phase |-> "invoked", event |-> event, username |-> username]
    /\ UNCHANGED <<sn, tw, now, executions>>

\* One run of process_data.lambda_handler.
ProcessData ==
    /\ pd.phase = "invoked"
    /\ \E draw \in ProcessDraws :
          pd' = [phase |-> "done", event |-> pd.event, username |-> pd.username,
                 success_draw |-> draw.success,
                 outcome |-> process_data_handler(pd.event, pd.username, draw)]
    /\ UNCHANGED <<sn, tw, now, executions>>

\* The platform hands the outcome to the orchestrator; the invocation is over.
ProcessDataComplete ==
    /\ pd.phase = "done"
    /\ pd' = Idle
    /\ UNCHANGED <<sn, tw, now, executions>>

Init ==
    /\ pd = Idle /\ sn = Idle /\ tw = Idle
    /\ now = 0 /\ executions = <<>>

NextProcessor == ProcessDataInvoke \/ ProcessData \/ ProcessDataComplete

SpecProcessor == Init /\ [][NextProcessor]_vars

(***************************************************************************)
(* send_notification.lambda_handler                                        *)
(***************************************************************************)
notification_times ==
    [EMAIL |-> <<500, 1500>>, SMS |-> <<200, 800>>, PUSH |-> <<100, 500>>]

\* str.lower() on the notification types.
lower(notification_type) ==
    CASE notification_type = "EMAIL" -> "email"
      [] notification_type = "SMS" -> "sms"
      [] notification_type = "PUSH" -> "push"

\* f"{processing_score:.1%}" of a score held in thousandths.
percent(score) == ToString(score \div 10) \o "." \o ToString(score % 10) \o "%"

\* A variant of the selection whose first threshold includes 0.9.
select_notification_type_ge(status, processing_score, records_processed) ==
    IF status = Str("SUCCESS")
    THEN IF processing_score.n >= 900 THEN "SMS"
         ELSE IF records_processed.n > 500 THEN "EMAIL"
         ELSE "PUSH"
    ELSE "EMAIL"

\* Lines 34-42: the notification type from status and data.
select_notification_type(status, processing_score, records_processed) ==
    IF status = Str("SUCCESS")
    THEN IF processing_score.n > 900 THEN "SMS"
         ELSE IF records_processed.n > 500 THEN "EMAIL"
         ELSE "PUSH"
    ELSE "EMAIL"

\* A variant of the priority whose threshold excludes 0.9.
select_priority_le(status, processing_score) ==
    IF status = Str("SUCCESS")
    THEN IF processing_score.n <= 900 THEN "normal" ELSE "high"
    ELSE "high"

\* Lines 58-63: the priority of the notification.
select_priority(status, processing_score) ==
    IF status = Str("SUCCESS")
    THEN IF processing_score.n < 900 THEN "normal" ELSE "high"
    ELSE "high"

\* Lines 58-63: the message (without its leading emoji).
compose_message(status, records_processed, data_type, processing_score) ==
    IF status = Str("SUCCESS")
    THEN "Data processing completed successfully! "
            \o ToString(records_processed.n) \o " " \o data_type.s
            \o " records processed with " \o percent(processing_score.n)
            \o " accuracy."
    ELSE "Data processing failed for " \o data_type.s
            \o ". Please check logs for details."

\* The random draws of one invocation, each a sample of random.random().
NotifyDraws == [duration : RandomSamples, success : RandomSamples,
                delivery : RandomSamples]

\* The body of the try block (lines 24-97).
send_notification_try(event, username, draw) ==
    LET user_id == Get(event, "userId", Str("unknown"))
        status == Get(event, "status", Str("UNKNOWN"))
        records_processed == Get(event, "recordsProcessed", Num(0))
        data_type == Get(event, "dataType", Str("general"))
        processing_score == Get(event, "processingScore", Num(0))
        notification_type ==
            select_notification_type(status, processing_score, records_processed)
        range == notification_times[notification_type]
        send_duration == uniform(range[1], range[2], draw.duration)
        message == compose_message(status, records_processed, data_type, processing_score)
        priority == select_priority(status, processing_score)
        notification_success == draw.success > 50
    IN  IF ~notification_success
        THEN Raise("Exception",
                   "Notification service unavailable for " \o notification_type)
        ELSE Return([userId |-> user_id,
                     notificationType |-> Str(notification_type),
                     status |-> Str("SENT"),
                     priority |-> Str(priority),
                     message |-> Str(message),
                     sentAt |-> Num(now),
                     sendDuration |-> Num(round(send_duration, 10)),
                     deliveryId |-> Str(lower(notification_type) \o "_" \o ToString(now)
                                        \o "_" \o ToString(randint(1000, 9999, draw.delivery))),
                     originalData |-> [dataType |-> data_type,
                                       recordsProcessed |-> records_processed,
                                       processingScore |-> processing_score],
                     metadata |-> metadata(username)])

\* The except clause (lines 99-116): error_result is built and dropped, and
\* the exception is raised again as Exception(str(e)).
send_notification_except(event, username, outcome) ==
    LET error_result ==
            [userId |-> Get(event, "userId", Str("unknown")),
             notificationType |-> Str("ERROR"),
             status |-> Str("FAILED"),
             error |-> Str(outcome.message),
             sentAt |-> Num(now),
             metadata |-> metadata(username)]
    IN  IF outcome.kind = "raise" THEN Raise("Exception", outcome.message)
        ELSE outcome

send_notification_handler(event, username, draw) ==
    send_notification_except(event, username,
                             send_notification_try(event, username, draw))

\* The Processing Outcomes the orchestrator may hand to the Notifier; scores
\* are in thousandths.
NotifyStatuses == {Str("SUCCESS"), Str("FAILED")}
NotifyScores == {Num(500), Num(899), Num(900), Num(901), Num(950)}
NotifyRecords == {Num(100), Num(500), Num(501), Num(600)}
NotifyEvents ==
    Dicts({"userId", "status", "recordsProcessed", "dataType", "processingScore"},
          [userId |-> {Str("u1")}, status |-> NotifyStatuses,
           recordsProcessed |-> NotifyRecords, dataType |-> {Str("sales_data")},
           processingScore |-> NotifyScores])

\* The orchestrator invokes the Notifier with a Processing Outcome.
SendNotificationInvoke ==
    /\ sn.phase = "idle"
    /\ \E event \in NotifyEvents, username \in Usernames :
          sn' = [phase |-> "invoked", event |-> event, username |-> username]
    /\ UNCHANGED <<pd, tw, now, executions>>

\* One run of send_notification.lambda_handler.
SendNotification ==
    /\ sn.phase = "invoked"
    /\ \E draw \in NotifyDraws :
          sn' = [phase |-> "done", event |-> sn.event, username |-> sn.username,
                 outcome |-> send_notification_handler(sn.event, sn.username, draw)]
    /\ UNCHANGED <<pd, tw, now, executions>>

\* The platform hands the outcome to the orchestrator; the invocation is over.
SendNotificationComplete ==
    /\ sn.phase = "done"
    /\ sn' = Idle
    /\ UNCHANGED <<pd, tw, now, executions>>

NextNotifier == SendNotificationInvoke \/ SendNotification \/ SendNotificationComplete

SpecNotifier == Init /\ [][NextNotifier]_vars

(***************************************************************************)
(* The json module.  A JSON text is the string json.dumps writes, with the *)
(* default separators; json.loads reads back the texts of JsonUniverse and *)
(* rejects every other string.                                             *)
(***************************************************************************)
RECURSIVE json_dumps(_), dumps_items(_), dumps_members(_, _)
dumps_items(items) ==
    IF items = <<>> THEN ""
    ELSE json_dumps(Head(items))
            \o (IF Len(items) = 1 THEN "" ELSE ", " \o dumps_items(Tail(items)))

dumps_members(d, keys) ==
    IF keys = <<>> THEN ""
    ELSE "\"" \o Head(keys) \o "\": " \o json_dumps(d[Head(keys)])
            \o (IF Len(keys) = 1 THEN "" ELSE ", " \o dumps_members(d, Tail(keys)))

\* json.dumps(v)
json_dumps(v) ==
    CASE v.t = "str" -> "\"" \o v.s \o "\""
      [] v.t = "num" -> ToString(v.n)
      [] v.t = "null" -> "null"
      [] v.t = "list" -> "[" \o dumps_items(v.items) \o "]"
      [] v.t = "dict" ->
"{" \o dumps_members(v.d, v.keys) \o "}"

(***************************************************************************)
(* trigger_workflow.lambda_handler                                         *)
(***************************************************************************)
allowed_data_types ==
    {"sales_data", "customer_data", "inventory_data", "analytics_data", "general"}

\* The request payloads: what a caller may put in a request body or hand over
\* directly.
TriggerPayloads ==
    Dicts({"userId", "dataType", "priority", "options"},
          [userId |-> {Str(""), Str("u1")},
           dataType |-> {Str(""), Str("bogus")} \cup {Str(k) : k \in allowed_data_types},
           priority |-> {Str("high")},
           options |-> {Obj([mode |-> Str("fast")])}])

\* Valid JSON documents that are not objects.
NonObjectValues == {List(<<Num(1), Num(2)>>), Null, Str("u1"), Num(7)}

\* The values whose JSON text json.loads is asked to read back.
RequestMetadatas ==
    [requestId : {Str(context.aws_request_id)},
     triggerSource : {Str("api_gateway")},
     username : {Str(u) : u \in Usernames},
     timestamp : {Num(t) : t \in 0..MaxTime},
     apiVersion : {Str("1.0")}]

RequestMetadataKeys ==
    <<"requestId", "triggerSource", "username", "timestamp", "apiVersion">>

WorkflowInputKeys(p) ==
    <<"userId", "dataType", "requestMetadata">>
        \o (IF "priority" \in DOMAIN p THEN <<"priority">> ELSE <<>>)
        \o (IF "options" \in DOMAIN p THEN <<"options">> ELSE <<>>)

WorkflowInputs ==
    { Dict(WorkflowInputKeys(p), p @@ [requestMetadata |-> Dict(RequestMetadataKeys, m)]) :
        p \in { q \in TriggerPayloads : {"userId", "dataType"} \subseteq DOMAIN q },
        m \in RequestMetadatas }

JsonUniverse == {Obj(p) : p \in TriggerPayloads} \cup NonObjectValues \cup WorkflowInputs

JsonTexts == [v \in JsonUniverse |-> json_dumps(v)]

\* json.loads(s): TypeError unless s is a string, JSONDecodeError unless the
\* string is a JSON text.
json_loads(s) ==
    IF s.t # "str"
    THEN Raise("TypeError",
               "the JSON object must be str, bytes or bytearray, not " \o type_name(s))
    ELSE IF \E v \in JsonUniverse : JsonTexts[v] = s.s
    THEN Return(CHOOSE v \in JsonUniverse : JsonTexts[v] = s.s)
    ELSE Raise("JSONDecodeError", "Expecting value")

\* Strings that are not JSON texts.
InvalidJsonTexts == {"{bad", " "}

\* The events the platform may hand to the Workflow Trigger: a direct
\* payload, an API-gateway envelope whose body is a string, and a payload
\* that carries a body field itself (empty, null, a string or a dict).
TriggerBodies ==
    {Null, Str(""), Obj([userId |-> Str("u1"), dataType |-> Str("general")])}
        \cup {Str(text) : text \in InvalidJsonTexts}
        \cup {Str(json_dumps(v)) : v \in NonObjectValues}
        \cup {Str(json_dumps(Obj(p))) : p \in TriggerPayloads}

TriggerEvents ==
    {Obj(p) : p \in TriggerPayloads}
        \cup { Obj(top @@ [body |-> b]) :
                 top \in {<<>>, [userId |-> Str("u1"), dataType |-> Str("sales_data")]},
                 b \in TriggerBodies }

\* os.environ of the Workflow Trigger.
TriggerEnvs ==
    Dicts({"USERNAME", "STATE_MACHINE_ARN"},
          [USERNAME |-> {"user1"}, STATE_MACHINE_ARN |-> {"", "arn:sm"}])

\* uuid.uuid4().hex[:8]: the leading 32 bits in hexadecimal.
HexDigits == <<"0", "1", "2", "3", "4", "5", "6", "7", "8", "9",
               "a", "b", "c", "d", "e", "f">>

RECURSIVE hex(_, _)
hex(n, digits) ==
    IF digits = 0 THEN ""
    ELSE hex(n \div 16, digits - 1) \o HexDigits[1 + (n % 16)]

\* The sampled prefixes are multiples of 0x12345678.
UuidPrefixes == { i * 305419896 : i \in 0..MaxUuid }

\* The orchestrator's answers to start_execution.
ErrorCodes ==
    {"StateMachineDoesNotExist", "InvalidParameterValue", "ExecutionLimitExceeded",
     "ExecutionAlreadyExists", "AccessDeniedException"}

SfnAnswers == {"started", "unreachable"} \cup ErrorCodes

ClientError(code, message) ==
    [kind |-> "raise", type |-> "ClientError", message |-> message,
     response |-> [Error |-> [Code |-> code, Message |-> message]]]

\* stepfunctions.start_execution(stateMachineArn, name, input)
start_execution(answer, stateMachineArn, name, input) ==
    IF answer = "started"
    THEN Return([executionArn |-> "arn:execution:" \o name, startDate |-> now])
    ELSE IF answer = "unreachable"
    THEN Raise("EndpointConnectionError", "Could not connect to the endpoint URL")
    ELSE ClientError(answer, "rejected: " \o answer)

\* datetime.isoformat() of a start date within the first seconds of the epoch.
isoformat(t) == "1970-01-01T00:00:0" \o ToString(t)

\* Lines 142-155.
create_error_response(status_code, message) ==
    [statusCode |-> status_code,
     headers |-> [ContentType |-> "application/json", AccessControlAllowOrigin |-> "*"],
     body |-> json_dumps(Dict(<<"error", "statusCode", "timestamp">>,
                              [error |-> Str(message),
                               statusCode |-> Num(status_code),
                               timestamp |-> Num(now)]))]

\* What one run of the handler leaves behind: how it ended, and the
\* start_execution requests it sent, each with the answer it got.
Ended(outcome, calls) == [outcome |-> outcome, calls |-> calls]

\* A variant of the error mapping without the concurrency-limit branch.
client_error_response_no429(e) ==
    LET error_code == e.response.Error.Code
        error_message == e.response.Error.Message
    IN  IF error_code = "StateMachineDoesNotExist"
        THEN create_error_response(500, "Step Functions state machine not found")
        ELSE IF error_code = "InvalidParameterValue"
        THEN create_error_response(400, "Invalid parameter: " \o error_message)
        ELSE create_error_response(500, "Step Functions error: " \o error_message)

\* Lines 120-133: the response to a ClientError of start_execution.
client_error_response(e) ==
    LET error_code == e.response.Error.Code
        error_message == e.response.Error.Message
    IN  IF error_code = "StateMachineDoesNotExist"
        THEN create_error_response(500, "Step Functions state machine not found")
        ELSE IF error_code = "InvalidParameterValue"
        THEN create_error_response(400, "Invalid parameter: " \o error_message)
        ELSE IF error_code = "ExecutionLimitExceeded"
        THEN create_error_response(429, "Too many concurrent executions")
        ELSE create_error_response(500, "Step Functions error: " \o error_message)

\* A variant of the normalisation that passes every dataType through.
normalize_data_type_passthrough(data_type) == data_type

\* Lines 53-57: a dataType outside the allowed values becomes 'general'.
normalize_data_type(data_type) ==
    IF data_type.t = "str" /\ data_type.s \in allowed_data_types
    THEN data_type ELSE Str("general")

\* A variant of the required-field checks without the dataType check.
missing_required_field_userid_only(user_id, data_type) ==
    IF ~Truthy(user_id) THEN "userId" ELSE ""

\* Lines 47-51: the first required field that is missing, "" when none is.
missing_required_field(user_id, data_type) ==
    IF ~Truthy(user_id) THEN "userId"
    ELSE IF ~Truthy(data_type) THEN "dataType"
    ELSE ""

\* Lines 59-118: the workflow input, the execution name, the one call of
\* start_execution and the response to its answer.
start_workflow(body, user_id, requested, username, state_machine_arn, uuid, answer) ==
    LET data_type == normalize_data_type(requested)
        workflow_input ==
            Dict(<<"userId", "dataType", "requestMetadata">>
                    \o (IF "priority" \in DOMAIN body THEN <<"priority">> ELSE <<>>)
                    \o (IF "options" \in DOMAIN body THEN <<"options">> ELSE <<>>),
                 [userId |-> user_id,
                  dataType |-> data_type,
                  requestMetadata |->
                      Dict(<<"requestId", "triggerSource", "username", "timestamp",
                             "apiVersion">>,
                           [requestId |-> Str(context.aws_request_id),
                            triggerSource |-> Str("api_gateway"),
                            username |-> Str(username),
                            timestamp |-> Num(now),
                            apiVersion |-> Str("1.0")])]
                    @@ (IF "priority" \in DOMAIN body
                        THEN [priority |-> body["priority"]] ELSE <<>>)
                    @@ (IF "options" \in DOMAIN body
                        THEN [options |-> body["options"]] ELSE <<>>))
        execution_name ==
            username \o "-" \o data_type.s \o "-" \o ToString(now) \o "-" \o hex(uuid, 8)
        input == json_dumps(workflow_input)
        response == start_execution(answer, state_machine_arn, execution_name, input)
        call == [stateMachineArn |-> state_machine_arn, name |-> execution_name,
                 input |-> input, answer |-> response]
    IN  IF response.kind = "return"
        THEN LET success_response ==
                    Dict(<<"message", "executionArn", "executionName",
                           "stateMachineArn", "input", "metadata">>,
                         [message |-> Str("Workflow started successfully"),
                          executionArn |-> Str(response.value.executionArn),
                          executionName |-> Str(execution_name),
                          stateMachineArn |-> Str(state_machine_arn),
                          input |-> workflow_input,
                          metadata |->
                              Dict(<<"username", "requestId", "startedAt">>,
                                   [username |-> Str(username),
                                    requestId |-> Str(context.aws_request_id),
                                    startedAt |->
                                        Str(isoformat(response.value.startDate))])])
             IN  Ended(Return([statusCode |-> 200,
                               headers |-> [ContentType |-> "application/json",
                                            AccessControlAllowOrigin |-> "*",
                                            XRequestID |-> context.aws_request_id],
                               body |-> json_dumps(success_response)]),
                       <<call>>)
        ELSE IF response.type = "ClientError"
        THEN Ended(Return(client_error_response(response)), <<call>>)
        ELSE Ended(response, <<call>>)

\* Lines 43-118: the required fields, then the start of the workflow.  A
\* body that is no dict has no get method.
validate_and_start(body, username, state_machine_arn, uuid, answer) ==
    IF body.t # "dict"
    THEN Ended(Raise("AttributeError",
                     "'" \o type_name(body) \o "' object has no attribute 'get'"),
               <<>>)
    ELSE LET user_id == Get(body.d, "userId", Null)
             data_type == Get(body.d, "dataType", Null)
             missing == missing_required_field(user_id, data_type)
         IN  IF missing # ""
             THEN Ended(Return(create_error_response(
                            400, "Missing required field: " \o missing)),
                        <<>>)
             ELSE start_workflow(body.d, user_id, data_type, username,
                                 state_machine_arn, uuid, answer)

\* The body of the try block (lines 31-133).
trigger_workflow_try(event, username, state_machine_arn, uuid, answer) ==
    IF Truthy(Get(event.d, "body", Null))
    THEN LET decoded == json_loads(event.d["body"])
         IN  IF decoded.kind = "raise" /\ decoded.type = "JSONDecodeError"
             THEN Ended(Return(create_error_response(400, "Invalid JSON in request body")),
                        <<>>)
             ELSE IF decoded.kind = "raise"
             THEN Ended(decoded, <<>>)
             ELSE validate_and_start(decoded.value, username, state_machine_arn,
                                     uuid, answer)
    ELSE validate_and_start(event, username, state_machine_arn, uuid, answer)

\* A variant of the outermost except clause that raises again, as the other
\* two handlers do.
trigger_workflow_except_reraise(ended) ==
    IF ended.outcome.kind = "raise"
    THEN Ended(Raise("Exception", ended.outcome.message), ended.calls)
    ELSE ended

\* The outermost except clause (lines 135-140).
trigger_workflow_except(ended) ==
    IF ended.outcome.kind = "raise"
    THEN Ended(Return(create_error_response(
                   500, "Internal server error: " \o ended.outcome.message)),
               ended.calls)
    ELSE ended

\* Lines 14-140.
trigger_workflow_handler(event, env, uuid, answer) ==
    LET username == Get(env, "USERNAME", "unknown")
        state_machine_arn == Get(env, "STATE_MACHINE_ARN", "")
    IN  IF state_machine_arn = ""
        THEN Ended(Return(create_error_response(
                       500, "Configuration error: STATE_MACHINE_ARN not found")),
                   <<>>)
        ELSE trigger_workflow_except(
                 trigger_workflow_try(event, username, state_machine_arn, uuid, answer))

\* The platform invokes the Workflow Trigger with an event.
TriggerInvokeWith(events, envs, limit) ==
    /\ tw.phase = "idle"
    /\ Len(executions) < limit
    /\ \E event \in events, env \in envs :
          tw' = [phase |-> "invoked", event |-> event, env |-> env]
    /\ UNCHANGED <<pd, sn, now, executions>>

\* Any request, to an orchestrator that has started nothing yet.
TriggerInvoke == TriggerInvokeWith(TriggerEvents, TriggerEnvs, 1)

\* One run of trigger_workflow.lambda_handler; the orchestrator records the
\* start requests it receives.
TriggerWorkflow ==
    /\ tw.phase = "invoked"
    /\ \E uuid \in UuidPrefixes, answer \in SfnAnswers :
          LET ended == trigger_workflow_handler(tw.event, tw.env, uuid, answer)
          IN  /\ tw' = [phase |-> "done", event |-> tw.event, env |-> tw.env,
                        outcome |-> ended.outcome, calls |-> ended.calls]
              /\ executions' = executions \o ended.calls
    /\ UNCHANGED <<pd, sn, now>>

\* The platform hands the response to the caller; the invocation is over.
TriggerComplete ==
    /\ tw.phase = "done"
    /\ tw' = Idle
    /\ UNCHANGED <<pd, sn, now, executions>>

\* A second of wall-clock time passes.
Tick ==
    /\ now < MaxTime
    /\ now' = now + 1
    /\ UNCHANGED <<pd, sn, tw, executions>>

NextTrigger == TriggerInvoke \/ TriggerWorkflow \/ TriggerComplete \/ Tick

SpecTrigger == Init /\ [][NextTrigger]_vars

\* Repeated valid requests, with the same and with different identities and
\* data types, to one orchestrator.
RepeatedEvents ==
    { Obj([userId |-> Str("u1"), dataType |-> Str(k)]) :
        k \in {"sales_data", "general", "bogus"} }

RepeatedEnvs == { env \in TriggerEnvs : Get(env, "STATE_MACHINE_ARN", "") = "arn:sm" }

TriggerInvokeRepeated == TriggerInvokeWith(RepeatedEvents, RepeatedEnvs, MaxExecutions)

NextNames == TriggerInvokeRepeated \/ TriggerWorkflow \/ TriggerComplete \/ Tick

SpecNames == Init /\ [][NextNames]_vars

(***************************************************************************)
(* Data Processor: properties.                                             *)
(***************************************************************************)
\* A field of the Task Descriptor is empty (present and falsy) or absent.
EmptyOrAbsent(event, key) == key \notin DOMAIN event \/ ~Truthy(event[key])

\* C7 (as claimed): the Data Processor raises whenever userId or dataType is
\* empty or absent in the Task Descriptor, whatever the other field is, and
\* then returns no payload.
C7_RaisesWhenEmptyOrAbsent ==
    (pd.phase = "done"
        /\ (EmptyOrAbsent(pd.event, "userId") \/ EmptyOrAbsent(pd.event, "dataType")))
    => pd.outcome.kind = "raise"

\* C8: every invocation of the Data Processor ends either by returning a
\* payload with status SUCCESS, recordsProcessed in [100, 1000] and
\* processingScore in [0.7, 0.99], or by raising; a failure draw always
\* raises, and no returned payload has status FAILED.
C8_SuccessPayloadOrRaise ==
    pd.phase = "done" =>
        LET o == pd.outcome
            data_type == Get(pd.event, "dataType", Str("general"))
        IN  /\ o.kind \in {"return", "raise"}
            /\ o.kind = "return" =>
                  /\ o.value.status = Str("SUCCESS")
                  /\ o.value.recordsProcessed.n \in 100..1000
                  /\ o.value.processingScore.n \in 700..990
            /\ pd.success_draw >= success_rate(data_type) => o.kind = "raise"

\* A valid Task Descriptor met a failure draw and the handler raised.
C8_Witness ==
    /\ pd.phase = "done"
    /\ ~EmptyOrAbsent(pd.event, "userId") /\ ~EmptyOrAbsent(pd.event, "dataType")
    /\ pd.success_draw >= success_rate(pd.event["dataType"])
    /\ pd.outcome = Raise("Exception", "Data processing failed: timeout")

(***************************************************************************)
(* Notifier: properties.                                                   *)
(***************************************************************************)
\* A numeric field of the Processing Outcome is present and exceeds `bound`.
Exceeds(event, key, bound) == key \in DOMAIN event /\ event[key].n > bound

StatusIsSuccess(event) == "status" \in DOMAIN event /\ event["status"] = Str("SUCCESS")

\* The channel the specification prescribes for a Processing Outcome.
PrescribedChannel(event) ==
    IF StatusIsSuccess(event) /\ Exceeds(event, "processingScore", 900) THEN "SMS"
    ELSE IF StatusIsSuccess(event) /\ Exceeds(event, "recordsProcessed", 500) THEN "EMAIL"
    ELSE IF StatusIsSuccess(event) THEN "PUSH"
    ELSE "EMAIL"

\* C9: the channel of every notification is the prescribed function of
\* (status, processingScore, recordsProcessed): SUCCESS with score > 0.9 is
\* SMS, else SUCCESS with more than 500 records is EMAIL, else SUCCESS is
\* PUSH, and any other or missing status is EMAIL; no random draw and no
\* other field changes it, whether the delivery succeeds or fails.
C9_ChannelIsDeterministic ==
    sn.phase = "done" =>
        IF sn.outcome.kind = "return"
        THEN sn.outcome.value.notificationType = Str(PrescribedChannel(sn.event))
        ELSE sn.outcome.message =
                "Notification service unavailable for " \o PrescribedChannel(sn.event)

\* The specification's example: status SUCCESS and score 0.95 went out by SMS.
C9_Witness ==
    /\ sn.phase = "done"
    /\ StatusIsSuccess(sn.event)
    /\ Get(sn.event, "processingScore", Null) = Num(950)
    /\ sn.outcome.kind = "return"
    /\ sn.outcome.value.notificationType = Str("SMS")

\* C10: in every returned notification record the priority is high when the
\* status is not SUCCESS or processingScore >= 0.9, and normal otherwise.
C10_PriorityRule ==
    (sn.phase = "done" /\ sn.outcome.kind = "return") =>
        sn.outcome.value.priority =
            (IF ~StatusIsSuccess(sn.event) \/ Exceeds(sn.event, "processingScore", 899)
             THEN Str("high") ELSE Str("normal"))

\* Status SUCCESS at a score of exactly 0.9: priority high, channel not SMS.
C10_Witness ==
    /\ sn.phase = "done"
    /\ StatusIsSuccess(sn.event)
    /\ Get(sn.event, "processingScore", Null) = Num(900)
    /\ sn.outcome.kind = "return"
    /\ sn.outcome.value.priority = Str("high")
    /\ sn.outcome.value.notificationType # Str("SMS")

(***************************************************************************)
(* Workflow Trigger: properties.                                           *)
(***************************************************************************)
\* The target-workflow configuration value is present.
ConfigPresent(env) == "STATE_MACHINE_ARN" \in DOMAIN env /\ env["STATE_MACHINE_ARN"] # ""

\* The request carries a body: the key is there and its value is not empty.
BodyPresent(event) == "body" \in DOMAIN event.d /\ Truthy(event.d["body"])

\* The body is a string that is not a JSON text.
BodyIsInvalidJson(event) ==
    /\ BodyPresent(event)
    /\ event.d["body"].t = "str"
    /\ json_loads(event.d["body"]).kind = "raise"

\* The request has a payload: the event itself, or what its string body
\* decodes to.
HasPayload(event) ==
    BodyPresent(event) =>
        (event.d["body"].t = "str" /\ json_loads(event.d["body"]).kind = "return")

RequestPayload(event) ==
    IF BodyPresent(event) THEN json_loads(event.d["body"]).value ELSE event

\* The payload holds a non-empty value for the field.
Carries(event, key) ==
    /\ HasPayload(event)
    /\ RequestPayload(event).t = "dict"
    /\ key \in DOMAIN RequestPayload(event).d
    /\ Truthy(RequestPayload(event).d[key])

\* The field is missing from the request's payload.
FieldMissing(event, key) == HasPayload(event) /\ ~Carries(event, key)

TriggerReturned == tw.phase = "done" /\ tw.outcome.kind = "return"

\* C1: every invocation of the Workflow Trigger ends by returning a response
\* {statusCode, headers, body} whose statusCode is 200, 400, 429 or 500; it
\* never ends by raising.
C1_AlwaysStructuredResponse ==
    tw.phase = "done" =>
        /\ tw.outcome.kind = "return"
        /\ DOMAIN tw.outcome.value = {"statusCode", "headers", "body"}
        /\ tw.outcome.value.statusCode \in {200, 400, 429, 500}

\* A body that decodes to a list made body.get fail, and the handler returned
\* the 500 response of its outermost except clause.
C1_Witness ==
    /\ tw.phase = "done"
    /\ BodyPresent(tw.event)
    /\ tw.event.d["body"] = Str("[1, 2]")
    /\ tw.outcome =
          Return(create_error_response(
              500, "Internal server error: 'list' object has no attribute 'get'"))

\* C2 (as claimed): the response is 500 whenever the configuration value is
\* absent, whatever the request; with the configuration present it is 400
\* when the body is present but not valid JSON, 400 when userId is missing
\* and 400 when dataType is missing.
C2_ValidationOutcome ==
    TriggerReturned =>
        LET status == tw.outcome.value.statusCode
        IN  /\ ~ConfigPresent(tw.env) => status = 500
            /\ (ConfigPresent(tw.env) /\ BodyIsInvalidJson(tw.event)) => status = 400
            /\ (ConfigPresent(tw.env) /\ FieldMissing(tw.event, "userId")) => status = 400
            /\ (ConfigPresent(tw.env) /\ FieldMissing(tw.event, "dataType")) => status = 400

\* The responses that end an invocation at the configuration check or at a
\* validation.
EarlyResponses ==
    {create_error_response(500, "Configuration error: STATE_MACHINE_ARN not found"),
     create_error_response(400, "Invalid JSON in request body"),
     create_error_response(400, "Missing required field: userId"),
     create_error_response(400, "Missing required field: dataType")}

\* C3: an invocation calls start_execution at most once, and only with the
\* configuration present and a decoded payload that carries userId and
\* dataType; an invocation that ends in the configuration 500 or a validation
\* 400 made no call; a 200 is returned only after one call that succeeded.
C3_SingleStartAfterValidation ==
    TriggerReturned =>
        /\ Len(tw.calls) <= 1
        /\ Len(tw.calls) = 1 =>
              /\ ConfigPresent(tw.env)
              /\ Carries(tw.event, "userId")
              /\ Carries(tw.event, "dataType")
        /\ tw.outcome.value \in EarlyResponses => tw.calls = <<>>
        /\ tw.outcome.value.statusCode = 200 =>
              (Len(tw.calls) = 1 /\ tw.calls[1].answer.kind = "return")

\* A request in an API-gateway envelope passed every check, the one call
\* succeeded and 200 was returned.
C3_Witness ==
    /\ TriggerReturned
    /\ BodyPresent(tw.event)
    /\ tw.outcome.value.statusCode = 200
    /\ Len(tw.calls) = 1
    /\ tw.calls[1].answer.kind = "return"

\* The status the specification prescribes for an orchestrator error code.
PrescribedStatus(code) ==
    CASE code = "StateMachineDoesNotExist" -> 500
      [] code = "InvalidParameterValue" -> 400
      [] code = "ExecutionLimitExceeded" -> 429
      [] OTHER -> 500

\* C4: when start_execution fails with a categorized error, the status of the
\* response is the prescribed function of the error code.
C4_ErrorCodeMapping ==
    (TriggerReturned /\ Len(tw.calls) = 1
        /\ tw.calls[1].answer.kind = "raise" /\ tw.calls[1].answer.type = "ClientError")
    => tw.outcome.value.statusCode = PrescribedStatus(tw.calls[1].answer.response.Error.Code)

\* The orchestrator answered ExecutionLimitExceeded and the response is 429.
C4_Witness ==
    /\ TriggerReturned
    /\ Len(tw.calls) = 1
    /\ tw.calls[1].answer.kind = "raise"
    /\ tw.calls[1].answer.type = "ClientError"
    /\ tw.calls[1].answer.response.Error.Code = "ExecutionLimitExceeded"
    /\ tw.outcome.value.statusCode = 429

\* The workflow input of a start request, read back from its JSON text.
InputOf(call) == json_loads(Str(call.input))

\* C5: the input of every start request decodes to an object whose dataType
\* is an allowed value, namely the requested dataType when that is allowed
\* and general otherwise, and whose userId is the requested userId.
C5_DataTypeNormalized ==
    tw.phase = "done" =>
        \A i \in 1..Len(tw.calls) :
            LET input == InputOf(tw.calls[i])
                requested == RequestPayload(tw.event).d
            IN  /\ input.kind = "return"
                /\ input.value.t = "dict"
                /\ input.value.d["dataType"].s \in allowed_data_types
                /\ input.value.d["dataType"] =
                      (IF requested["dataType"].s \in allowed_data_types
                       THEN requested["dataType"] ELSE Str("general"))
                /\ input.value.d["userId"] = requested["userId"]

\* A request for dataType "bogus" was started with dataType general and
\* answered with 200.
C5_Witness ==
    /\ TriggerReturned
    /\ Len(tw.calls) = 1
    /\ RequestPayload(tw.event).d["dataType"] = Str("bogus")
    /\ InputOf(tw.calls[1]).value.d["dataType"] = Str("general")
    /\ tw.outcome.value.statusCode = 200

\* C6 (as claimed): no two start requests the orchestrator ever receives have
\* the same execution name.
C6_UniqueExecutionNames ==
    \A i, j \in 1..Len(executions) :
        i # j => executions[i].name # executions[j].name

====
